---- MODULE Spec2Model ----
(***************************************************************************)
(* FriendlyChat web client (web-start/src/index.js): the message feed.     *)
(*                                                                         *)
(* The remote collection 'messages', the rendered message list (the        *)
(* children of #messages), the live listener on the three most recent      *)
(* messages, the "load five previous messages" history, the favorites      *)
(* view flag, and the click handlers with their awaits: every await is a   *)
(* suspension point at which other events are processed, and every         *)
(* getDocs(...).then(...) is a callback that runs when its query completes.*)
(***************************************************************************)
EXTENDS Integers, Sequences, FiniteSets, TLC

\* ---------------------------------------------------------------- bounds
\* Documents ever created in the collection (identifiers 1..MaxDocs).
MaxDocs == 4
\* Handlers suspended at an await plus callbacks awaiting their query: a
\* click is taken only while fewer than this many are in flight.
MaxInFlight == 1
\* Documents already in the collection when the page is opened.
MaxInitDocs == MaxDocs - 2
\* Locally written messages whose server timestamp is not yet assigned.
MaxUnacked == MaxInFlight

\* ------------------------------------------------------ program constants
\* limit(3) of the live query and of getFirstMessage.
WindowSize == 3
\* limit(5) of getPreviousFiveMessages.
PageSize == 5
\* Ticks of a server timestamp per millisecond: Timestamp.toMillis()
\* truncates the finer server timestamp to milliseconds.
TicksPerMilli == 2

\* The largest collection a session starts from: a live window, one full
\* page and one document more.
MaxId == MaxDocs + PageSize

Ids == 1..MaxId

\* timestamp.toMillis()
ToMillis(ts) == ts \div TicksPerMilli

\* Date.now(): the local clock reads the millisecond the server's clock is
\* about to assign.
Now(c) == ToMillis(c + 1)

VARIABLES
    db,                   \* the collection: live id -> [ts, pend, fav, img]
    nextId,               \* next identifier the collection hands out
    clock,                \* last server timestamp assigned
    view,                 \* children of #messages: <<[id, ts, star, body]>>
    snap,                 \* result last delivered to the onSnapshot listener
    arrayLoadedMessages,  \* history of loaded pages (document snapshots)
    displayFavorites,     \* the favorites view flag
    pcLoad, cursorLoad,   \* loadPreviousFiveMessages: position, firstMessageChat
    pcDel, idDel,         \* deleteOneMessage: position, clicked message
    pcHl, idHl, aliveHl,  \* highlightMessage: position, clicked message, button still in the list
    pcDm,                 \* displayMessages: position
    pcDx,                 \* deleteAllExceptFavorites: position
    pcLoad2, cursorLoad2, \* a second loadPreviousFiveMessages call, overlapping the first
    asked,                \* the listing of deleteAllExceptFavorites in flight: was the user asked
    bound,                \* size of the session: identifiers created, operations in flight
    pend,                 \* callbacks awaiting their query: kind -> count
    prevLoad,             \* cursor of the last load that appended a page; history spliced since
    last                  \* the step taken last (what the user saw happen)

vars == <<db, nextId, clock, view, snap, arrayLoadedMessages,
          displayFavorites, pcLoad, cursorLoad, pcDel, idDel, pcHl, idHl,
          aliveHl, pcDm, pcDx, pend, prevLoad, last, bound, pcLoad2,
          cursorLoad2, asked>>

\* ------------------------------------------------------------ documents
\* A document snapshot: what doc.id and doc.data() give.
DocSnap(d, id) == [id |-> id, ts |-> d[id].ts, pend |-> d[id].pend,
                   fav |-> d[id].fav, img |-> d[id].img]

\* No document: an undefined snapshot.
NoDoc == [id |-> 0, ts |-> 0, pend |-> FALSE, fav |-> FALSE, img |-> 0]

\* orderBy('timestamp'): a pending server timestamp sorts after every
\* committed one; the document name breaks ties.
Key(s) == IF s.pend THEN MaxId + 1 + s.id ELSE s.ts

Newer(a, b) == Key(a) > Key(b) \/ (Key(a) = Key(b) /\ a.id > b.id)

RECURSIVE SortDesc(_)
\* orderBy('timestamp', 'desc') over a set of snapshots.
SortDesc(S) ==
    IF S = {} THEN <<>>
    ELSE LET m == CHOOSE x \in S : \A y \in S \ {x} : Newer(x, y)
         IN  <<m>> \o SortDesc(S \ {m})

Take(s, n) == SubSeq(s, 1, IF Len(s) < n THEN Len(s) ELSE n)

SeqIds(s) == {s[i].id : i \in 1..Len(s)}

\* A query result by document identifier.
AsMap(docs) == [id \in SeqIds(docs) |->
                   docs[CHOOSE i \in 1..Len(docs) : docs[i].id = id]]

\* query(collection('messages'), orderBy('timestamp','desc'))
AllDocs(d) == SortDesc({DocSnap(d, i) : i \in DOMAIN d})

\* ... where('favorite','==',true)
FavDocs(d) == SortDesc({DocSnap(d, i) : i \in {j \in DOMAIN d : d[j].fav}})

\* ... limit(3)
RecentDocs(d) == Take(AllDocs(d), WindowSize)

\* ------------------------------------------------------------- rendering
RECURSIVE WalkGe(_, _, _)
\* Walk with >= for >: a new message goes before the messages of its own
\* millisecond.
WalkGe(v, i, t) ==
    IF i > Len(v) THEN i
    ELSE IF v[i].ts >= t THEN i
    ELSE WalkGe(v, i + 1, t)

RECURSIVE Walk(_, _, _)
\* The while loop of createAndInsertMessage: the first child whose
\* timestamp attribute is greater than the new one (Len+1: null, append).
Walk(v, i, t) ==
    IF i > Len(v) THEN i
    ELSE IF v[i].ts > t THEN i
    ELSE Walk(v, i + 1, t)

\* InsertionIndex without the search: every new message is appended.
InsertionIndexAppend(v, t) == Len(v) + 1

InsertionIndex(v, t) == IF Len(v) = 0 THEN 1 ELSE Walk(v, 1, t)

InsertBefore(v, i, e) == SubSeq(v, 1, i - 1) \o <<e>> \o SubSeq(v, i, Len(v))

Rendered(v, id) == \E i \in 1..Len(v) : v[i].id = id

Entry(v, id) == v[CHOOSE i \in 1..Len(v) : v[i].id = id]

createAndInsertMessage(v, s, now) ==
    LET t == IF s.pend THEN now ELSE ToMillis(s.ts)
        e == [id |-> s.id, ts |-> t, star |-> FALSE, body |-> 0]
    IN  InsertBefore(v, InsertionIndex(v, t), e)

\* displayMessage without getElementById: an element is created each time.
displayMessageNoLookup(v, s, now) ==
    LET w == createAndInsertMessage(v, s, now)
    IN  [i \in 1..Len(w) |->
            IF w[i].id = s.id
            THEN [w[i] EXCEPT !.body = s.img,
                              !.star = IF s.fav THEN TRUE ELSE @]
            ELSE w[i]]

\* displayMessage toggling the star of a favorite instead of setting it.
displayMessageToggleStar(v, s, now) ==
    LET w == IF Rendered(v, s.id) THEN v ELSE createAndInsertMessage(v, s, now)
    IN  [i \in 1..Len(w) |->
            IF w[i].id = s.id
            THEN [w[i] EXCEPT !.body = s.img,
                              !.star = IF s.fav THEN ~@ ELSE @]
            ELSE w[i]]

\* displayMessage: getElementById(id) || createAndInsertMessage(id, ts), then
\* the content is set and the star is filled when favorite is true.
displayMessage(v, s, now) ==
    LET w == IF Rendered(v, s.id) THEN v ELSE createAndInsertMessage(v, s, now)
    IN  [i \in 1..Len(w) |->
            IF w[i].id = s.id
            THEN [w[i] EXCEPT !.body = s.img,
                              !.star = IF s.fav THEN TRUE ELSE @]
            ELSE w[i]]

deleteMessage(v, id) == SelectSeq(v, LAMBDA e : e.id # id)

RECURSIVE DisplayEach(_, _, _)
\* forEach(doc => displayMessage(...)) over a query result.
DisplayEach(v, docs, now) ==
    IF Len(docs) = 0 THEN v
    ELSE DisplayEach(displayMessage(v, Head(docs), now), Tail(docs), now)

RECURSIVE DeleteEach(_, _)
\* forEach(doc => deleteMessage(doc.id)) over a query result.
DeleteEach(v, docs) ==
    IF Len(docs) = 0 THEN v
    ELSE DeleteEach(deleteMessage(v, Head(docs).id), Tail(docs))

\* ------------------------------------------------------------ bookkeeping
EmptyFn == [i \in {} |-> 0]

Without(f, id) == [i \in (DOMAIN f) \ {id} |-> f[i]]

\* The step taken last: its name and message, the kinds of change a
\* listener event carried, and, while nothing but the callbacks of a
\* clear-and-reload has run since it was requested, the request (origin)
\* and the messages rendered when it was made (before).
Step(op, id) == [op |-> op, id |-> id, kinds |-> {}, origin |-> "none",
                 before |-> {}]

Request(op, id, v) == [op |-> op, id |-> id, kinds |-> {}, origin |-> op,
                       before |-> SeqIds(v)]

\* The rendered list changes; a button clicked earlier stays the one being
\* handled only while its element has not been removed from the list.
SetView(v) ==
    /\ view' = v
    /\ aliveHl' = (aliveHl /\ Rendered(v, idHl))

Kinds == {"clear", "loadFav", "loadAll", "deleteAll", "deleteExcept"}

Issue(p, ks) == [k \in Kinds |-> IF k \in ks THEN p[k] + 1 ELSE p[k]]

Done(p, k) == [p EXCEPT ![k] = @ - 1]

Handlers ==
    Cardinality({i \in 1..6 :
        <<pcLoad, pcDel, pcHl, pcDm, pcDx, pcLoad2>>[i] # "idle"})

InFlight == Handlers + pend["clear"] + pend["loadFav"] + pend["loadAll"]
               + pend["deleteAll"] + pend["deleteExcept"]

Unacked == Cardinality({i \in DOMAIN db : db[i].pend})

\* isUserSignedIn(): the auth state is read once, at the click, and changes
\* freely between events (signIn, signOutUser), so a click reads either.
isUserSignedIn == BOOLEAN

\* ---------------------------------------------------------- initial state
\* The page has just been loaded: nothing is rendered, the listener has
\* not fired yet, and the collection holds whatever earlier sessions left.
Init ==
    /\ \E n \in 0..MaxInitDocs : \E favs \in SUBSET (1..n) :
          /\ db = [i \in 1..n |-> [ts |-> i, pend |-> FALSE,
                                   fav |-> (i \in favs), img |-> 0]]
          /\ nextId = n + 1
          /\ clock = n
    /\ view = <<>>
    /\ snap = EmptyFn
    /\ arrayLoadedMessages = <<>>
    /\ displayFavorites = FALSE
    /\ pcLoad = "idle" /\ cursorLoad = NoDoc
    /\ pcDel = "idle" /\ idDel = 0
    /\ pcHl = "idle" /\ idHl = 0 /\ aliveHl = FALSE
    /\ pcDm = "idle"
    /\ pcDx = "idle"
    /\ pend = [k \in Kinds |-> 0]
    /\ prevLoad = [cursor |-> NoDoc, spliced |-> FALSE]
    /\ pcLoad2 = "idle" /\ cursorLoad2 = NoDoc
    /\ asked = "none"
    /\ bound = [docs |-> MaxDocs, inFlight |-> MaxInFlight]
    /\ last = Step("init", 0)

\* ------------------------------------------------------------ environment
\* The listener has been told of the collection's current state. Writes to
\* the collection (by other clients, by the message form) come one listener
\* event apart.
Synced == snap = AsMap(RecentDocs(db))

\* Another client adds a message: it arrives with its server timestamp.
RemoteAdd ==
    /\ Synced
    /\ nextId <= bound.docs
    /\ db' = (nextId :> [ts |-> clock + 1, pend |-> FALSE, fav |-> FALSE,
                         img |-> 0]) @@ db
    /\ clock' = clock + 1
    /\ nextId' = nextId + 1
    /\ last' = Step("remoteAdd", nextId)
    /\ UNCHANGED <<view, snap, arrayLoadedMessages, displayFavorites, pcLoad,
                   cursorLoad, pcDel, idDel, pcHl, idHl, aliveHl, pcDm, pend, prevLoad, pcDx,
                   bound, pcLoad2, cursorLoad2, asked>>

\* Another client deletes a message.
RemoteDelete(id) ==
    /\ Synced
    /\ id \in DOMAIN db
    /\ ~db[id].pend
    /\ db' = Without(db, id)
    /\ last' = Step("remoteDelete", id)
    /\ UNCHANGED <<nextId, clock, view, snap, arrayLoadedMessages,
                   displayFavorites, pcLoad, cursorLoad, pcDel, idDel, pcHl,
                   idHl, aliveHl, pcDm, pend, prevLoad, pcDx,
                   bound, pcLoad2, cursorLoad2, asked>>

\* saveMessage / saveImageMessage: addDoc with serverTimestamp(); the local
\* cache holds the document at once, its timestamp still null.
saveMessage(img) ==
    /\ Synced
    /\ nextId <= bound.docs
    /\ Unacked < MaxUnacked
    /\ db' = (nextId :> [ts |-> 0, pend |-> TRUE, fav |-> FALSE,
                         img |-> img]) @@ db
    /\ nextId' = nextId + 1
    /\ last' = Step("saveMessage", nextId)
    /\ UNCHANGED <<clock, view, snap, arrayLoadedMessages, displayFavorites,
                   pcLoad, cursorLoad, pcDel, idDel, pcHl, idHl, aliveHl,
                   pcDm, pend, prevLoad, pcDx,
                   bound, pcLoad2, cursorLoad2, asked>>

\* The server commits a local write and assigns its timestamp.
ServerAck(id) ==
    /\ id \in DOMAIN db
    /\ db[id].pend
    /\ db' = [db EXCEPT ![id].pend = FALSE, ![id].ts = clock + 1]
    /\ clock' = clock + 1
    /\ last' = Step("serverAck", id)
    /\ UNCHANGED <<nextId, view, snap, arrayLoadedMessages, displayFavorites,
                   pcLoad, cursorLoad, pcDel, idDel, pcHl, idHl, aliveHl,
                   pcDm, pend, prevLoad, pcDx,
                   bound, pcLoad2, cursorLoad2, asked>>

\* saveImageMessage, step 4: the placeholder gets the image's public URL.
ImageUploaded(id) ==
    /\ id \in DOMAIN db
    /\ ~db[id].pend
    /\ db[id].img = 1
    /\ db' = [db EXCEPT ![id].img = 2]
    /\ last' = Step("imageUploaded", id)
    /\ UNCHANGED <<nextId, clock, view, snap, arrayLoadedMessages,
                   displayFavorites, pcLoad, cursorLoad, pcDel, idDel, pcHl,
                   idHl, aliveHl, pcDm, pend, prevLoad, pcDx,
                   bound, pcLoad2, cursorLoad2, asked>>

\* Another client toggles a message's favorite flag with its own star
\* button (highlightMessage's updateDoc).
RemoteHighlight(id) ==
    /\ Synced
    /\ id \in DOMAIN db
    /\ ~db[id].pend
    /\ db' = [db EXCEPT ![id].fav = ~@]
    /\ last' = Step("remoteHighlight", id)
    /\ UNCHANGED <<nextId, clock, view, snap, arrayLoadedMessages,
                   displayFavorites, pcLoad, cursorLoad, pcDel, idDel, pcHl,
                   idHl, aliveHl, pcDm, pend, prevLoad, pcDx,
                   bound, pcLoad2, cursorLoad2, asked>>

\* ------------------------------------------------------ the live listener
\* onSnapshot(recentMessagesQuery, ...): the changes between the result
\* delivered last and the current one, removed first, then added, then
\* modified, each handled by deleteMessage or displayMessage.
Removed(old, new) == (DOMAIN old) \ SeqIds(new)

Added(old, new) == SelectSeq(new, LAMBDA s : s.id \notin DOMAIN old)

Modified(old, new) ==
    SelectSeq(new, LAMBDA s : s.id \in DOMAIN old /\ old[s.id] # s)

RECURSIVE DeleteIds(_, _)
DeleteIds(v, S) ==
    IF S = {} THEN v
    ELSE LET id == CHOOSE x \in S : TRUE
         IN  DeleteIds(deleteMessage(v, id), S \ {id})

loadMessages(v, old, new, now) ==
    DisplayEach(DisplayEach(DeleteIds(v, Removed(old, new)),
                            Added(old, new), now),
                Modified(old, new), now)

Snapshot ==
    LET new == RecentDocs(db) IN
    /\ AsMap(new) # snap
    /\ SetView(loadMessages(view, snap, new, Now(clock)))
    /\ snap' = AsMap(new)
    /\ last' = [Step("snapshot", 0) EXCEPT !.kinds =
                   {k \in {"removed", "added", "modified"} :
                      \/ k = "removed" /\ Removed(snap, new) # {}
                      \/ k = "added" /\ Len(Added(snap, new)) > 0
                      \/ k = "modified" /\ Len(Modified(snap, new)) > 0}]
    /\ UNCHANGED <<db, nextId, clock, arrayLoadedMessages, displayFavorites,
                   pcLoad, cursorLoad, pcDel, idDel, pcHl, idHl, pcDm, pend, prevLoad, pcDx,
                   bound, pcLoad2, cursorLoad2, asked>>

\* --------------------------------------------- loadPreviousFiveMessages
\* getPreviousFiveMessages with startAt for startAfter: the cursor itself
\* is fetched again.
getPreviousFiveMessagesStartAt(d, cursor) ==
    Take(SelectSeq(AllDocs(d), LAMBDA s : Newer(cursor, s) \/ s.id = cursor.id),
         PageSize)

\* getPreviousFiveMessages without limit(5).
getPreviousFiveMessagesNoLimit(d, cursor) ==
    SelectSeq(AllDocs(d), LAMBDA s : Newer(cursor, s))

\* getPreviousFiveMessages: startAfter(firstMessageChat), limit(5), newest
\* first.
getPreviousFiveMessages(d, cursor) ==
    Take(SelectSeq(AllDocs(d), LAMBDA s : Newer(cursor, s)), PageSize)

\* getFirstMessage: the last document of the three most recent ones
\* (NoDoc: docs[-1] of an empty result, undefined).
getFirstMessage(d) ==
    LET docs == RecentDocs(d)
    IN  IF Len(docs) = 0 THEN NoDoc ELSE docs[Len(docs)]

\* The click: checkSignedInWithMessage, then await noMessages().
LoadClick ==
    /\ pcLoad = "idle"
    /\ InFlight < bound.inFlight
    /\ \E s \in isUserSignedIn :
          IF s THEN /\ pcLoad' = "noMessages"
                    /\ last' = Step("loadClick", 0)
               ELSE /\ pcLoad' = pcLoad
                    /\ last' = Step("mustSignIn", 0)
    /\ UNCHANGED <<db, nextId, clock, view, snap, arrayLoadedMessages,
                   displayFavorites, cursorLoad, pcDel, idDel, pcHl, idHl,
                   aliveHl, pcDm, pend, prevLoad, pcDx,
                   bound, pcLoad2, cursorLoad2, asked>>

\* noMessages() has answered. With messages and an empty history the
\* handler awaits getFirstMessage(); with a history it takes its last
\* element and calls getPreviousFiveMessages, which refuses a cursor whose
\* timestamp is still uncommitted.
LoadNoMessages ==
    /\ pcLoad = "noMessages"
    /\ IF DOMAIN db = {}
       THEN /\ pcLoad' = "idle"
            /\ cursorLoad' = NoDoc
            /\ last' = Step("alertNoMessages", 0)
       ELSE IF Len(arrayLoadedMessages) = 0
       THEN /\ pcLoad' = "getFirstMessage"
            /\ cursorLoad' = NoDoc
            /\ last' = Step("loadNoMessages", 0)
       ELSE LET c == arrayLoadedMessages[Len(arrayLoadedMessages)] IN
            IF c.pend
            THEN /\ pcLoad' = "idle"
                 /\ cursorLoad' = NoDoc
                 /\ last' = Step("loadThrew", 0)
            ELSE /\ pcLoad' = "getPage"
                 /\ cursorLoad' = c
                 /\ last' = Step("loadCursor", c.id)
    /\ UNCHANGED <<db, nextId, clock, view, snap, arrayLoadedMessages,
                   displayFavorites, pcDel, idDel, pcHl, idHl, aliveHl, pcDm,
                   pend, prevLoad, pcDx,
                   bound, pcLoad2, cursorLoad2, asked>>

\* getFirstMessage() has answered; the history is looked at again, and the
\* cursor's fields are read (an undefined cursor throws).
LoadGetFirstMessage ==
    /\ pcLoad = "getFirstMessage"
    /\ LET c == IF Len(arrayLoadedMessages) > 0
                THEN arrayLoadedMessages[Len(arrayLoadedMessages)]
                ELSE getFirstMessage(db) IN
       IF c = NoDoc \/ c.pend
       THEN /\ pcLoad' = "idle"
            /\ cursorLoad' = NoDoc
            /\ last' = Step("loadThrew", 0)
       ELSE /\ pcLoad' = "getPage"
            /\ cursorLoad' = c
            /\ last' = Step("loadCursor", c.id)
    /\ UNCHANGED <<db, nextId, clock, view, snap, arrayLoadedMessages,
                   displayFavorites, pcDel, idDel, pcHl, idHl, aliveHl, pcDm,
                   pend, prevLoad, pcDx,
                   bound, pcLoad2, cursorLoad2, asked>>

\* getPreviousFiveMessages has answered: each document is displayed and
\* pushed onto the history.
LoadGetPage ==
    /\ pcLoad = "getPage"
    /\ LET page == getPreviousFiveMessages(db, cursorLoad) IN
       /\ SetView(DisplayEach(view, page, Now(clock)))
       /\ arrayLoadedMessages' = arrayLoadedMessages \o page
       /\ prevLoad' = IF Len(page) = 0 THEN prevLoad
                      ELSE [cursor |-> cursorLoad, spliced |-> FALSE]
    /\ pcLoad' = "idle"
    /\ cursorLoad' = NoDoc
    /\ last' = Step("loadPage", cursorLoad.id)
    /\ UNCHANGED <<db, nextId, clock, snap, displayFavorites, pcDel, idDel,
                   pcHl, idHl, pcDm, pend, pcDx,
                   bound, pcLoad2, cursorLoad2, asked>>

\* A second call of loadPreviousFiveMessages, started by another click
\* while the first is suspended at an await: the same steps on its own
\* local variables.
Load2Click ==
    /\ pcLoad2 = "idle"
    /\ pcLoad # "idle"
    /\ InFlight < bound.inFlight
    /\ \E s \in isUserSignedIn :
          IF s THEN /\ pcLoad2' = "noMessages"
                    /\ last' = Step("loadClick", 0)
               ELSE /\ pcLoad2' = pcLoad2
                    /\ last' = Step("mustSignIn", 0)
    /\ UNCHANGED <<db, nextId, clock, view, snap, arrayLoadedMessages,
                   displayFavorites, cursorLoad2, pcDel, idDel, pcHl, idHl,
                   aliveHl, pcDm, pend, prevLoad, pcDx,
                   bound, pcLoad, cursorLoad, asked>>

\* The second call: noMessages() has answered.
Load2NoMessages ==
    /\ pcLoad2 = "noMessages"
    /\ IF DOMAIN db = {}
       THEN /\ pcLoad2' = "idle"
            /\ cursorLoad2' = NoDoc
            /\ last' = Step("alertNoMessages", 0)
       ELSE IF Len(arrayLoadedMessages) = 0
       THEN /\ pcLoad2' = "getFirstMessage"
            /\ cursorLoad2' = NoDoc
            /\ last' = Step("loadNoMessages", 0)
       ELSE LET c == arrayLoadedMessages[Len(arrayLoadedMessages)] IN
            IF c.pend
            THEN /\ pcLoad2' = "idle"
                 /\ cursorLoad2' = NoDoc
                 /\ last' = Step("loadThrew", 0)
            ELSE /\ pcLoad2' = "getPage"
                 /\ cursorLoad2' = c
                 /\ last' = Step("loadCursor", c.id)
    /\ UNCHANGED <<db, nextId, clock, view, snap, arrayLoadedMessages,
                   displayFavorites, pcDel, idDel, pcHl, idHl, aliveHl, pcDm,
                   pend, prevLoad, pcDx,
                   bound, pcLoad, cursorLoad, asked>>

\* The second call: getFirstMessage() has answered.
Load2GetFirstMessage ==
    /\ pcLoad2 = "getFirstMessage"
    /\ LET c == IF Len(arrayLoadedMessages) > 0
                THEN arrayLoadedMessages[Len(arrayLoadedMessages)]
                ELSE getFirstMessage(db) IN
       IF c = NoDoc \/ c.pend
       THEN /\ pcLoad2' = "idle"
            /\ cursorLoad2' = NoDoc
            /\ last' = Step("loadThrew", 0)
       ELSE /\ pcLoad2' = "getPage"
            /\ cursorLoad2' = c
            /\ last' = Step("loadCursor", c.id)
    /\ UNCHANGED <<db, nextId, clock, view, snap, arrayLoadedMessages,
                   displayFavorites, pcDel, idDel, pcHl, idHl, aliveHl, pcDm,
                   pend, prevLoad, pcDx,
                   bound, pcLoad, cursorLoad, asked>>

\* The second call: getPreviousFiveMessages has answered.
Load2GetPage ==
    /\ pcLoad2 = "getPage"
    /\ LET page == getPreviousFiveMessages(db, cursorLoad2) IN
       /\ SetView(DisplayEach(view, page, Now(clock)))
       /\ arrayLoadedMessages' = arrayLoadedMessages \o page
       /\ prevLoad' = IF Len(page) = 0 THEN prevLoad
                      ELSE [cursor |-> cursorLoad2, spliced |-> FALSE]
    /\ pcLoad2' = "idle"
    /\ cursorLoad2' = NoDoc
    /\ last' = Step("loadPage", cursorLoad2.id)
    /\ UNCHANGED <<db, nextId, clock, snap, displayFavorites, pcDel, idDel,
                   pcHl, idHl, pcDm, pend, pcDx,
                   bound, pcLoad, cursorLoad, asked>>

\* ------------------------------------------------------------ deleteImage
\* Image URLs of a document: none (a text message), the loading placeholder
\* written by saveImageMessage, the public URL of the uploaded file.
NoImage == 0

LoadingImage == 1

StoredImage == 2

\* deleteImage(imageUrl): nothing for undefined; ref(getStorage(), url)
\* throws for a URL outside the storage bucket (the placeholder); otherwise
\* deleteObject is issued and its outcome is only logged.
deleteImage(img) ==
    IF img = NoImage THEN "none"
    ELSE IF img = LoadingImage THEN "threw"
    ELSE "issued"

\* ------------------------------------------------------- deleteOneMessage
RECURSIVE SpliceFrom(_, _, _)
\* for (i = 0; i < a.length; i++) if (a[i].id == id) a.splice(i, 1);
\* after a splice the element that moved into place i is skipped.
SpliceFrom(a, i, id) ==
    IF i > Len(a) THEN a
    ELSE IF a[i].id = id
    THEN SpliceFrom(SubSeq(a, 1, i - 1) \o SubSeq(a, i + 1, Len(a)), i + 1, id)
    ELSE SpliceFrom(a, i + 1, id)

Splice(a, id) == SpliceFrom(a, 1, id)

\* The click on a rendered message's delete button, then await getDoc.
DeleteClick(id) ==
    /\ pcDel = "idle"
    /\ InFlight < bound.inFlight
    /\ Rendered(view, id)
    /\ \E s \in isUserSignedIn :
          IF s THEN /\ pcDel' = "getDoc"
                    /\ idDel' = id
                    /\ last' = Step("deleteClick", id)
               ELSE /\ pcDel' = pcDel
                    /\ idDel' = idDel
                    /\ last' = Step("mustSignIn", 0)
    /\ UNCHANGED <<db, nextId, clock, view, snap, arrayLoadedMessages,
                   displayFavorites, pcLoad, cursorLoad, pcHl, idHl, aliveHl,
                   pcDm, pend, prevLoad, pcDx,
                   bound, pcLoad2, cursorLoad2, asked>>

\* getDoc has answered: the message leaves the list; docSnap.data() of a
\* document that no longer exists is undefined and reading its imageUrl
\* throws, and so does deleteImage for a URL that is not a storage URL:
\* either skips deleteDoc and the history.
DeleteGetDoc ==
    /\ pcDel = "getDoc"
    /\ SetView(deleteMessage(view, idDel))
    /\ IF idDel \in DOMAIN db /\ deleteImage(db[idDel].img) # "threw"
       THEN /\ db' = Without(db, idDel)
            /\ arrayLoadedMessages' = Splice(arrayLoadedMessages, idDel)
            /\ prevLoad' = IF Splice(arrayLoadedMessages, idDel) = arrayLoadedMessages
                              \/ prevLoad.cursor = NoDoc
                           THEN prevLoad
                           ELSE [prevLoad EXCEPT !.spliced = TRUE]
            /\ last' = Step("deleteOne", idDel)
       ELSE /\ UNCHANGED <<db, arrayLoadedMessages, prevLoad>>
            /\ last' = Step("deleteThrew", idDel)
    /\ pcDel' = "idle"
    /\ idDel' = 0
    /\ UNCHANGED <<nextId, clock, snap, displayFavorites, pcLoad, cursorLoad,
                   pcHl, idHl, pcDm, pend, pcDx,
                   bound, pcLoad2, cursorLoad2, asked>>

\* ------------------------------------------------------- highlightMessage
SetStar(v, id, b) ==
    [i \in 1..Len(v) |-> IF v[i].id = id THEN [v[i] EXCEPT !.star = b] ELSE v[i]]

\* The click on a rendered message's star button, then await getDoc.
HighlightClick(id) ==
    /\ pcHl = "idle"
    /\ InFlight < bound.inFlight
    /\ Rendered(view, id)
    /\ \E s \in isUserSignedIn :
          IF s THEN /\ pcHl' = "getDoc"
                    /\ idHl' = id
                    /\ aliveHl' = TRUE
                    /\ last' = Step("highlightClick", id)
               ELSE /\ UNCHANGED <<pcHl, idHl, aliveHl>>
                    /\ last' = Step("mustSignIn", 0)
    /\ UNCHANGED <<db, nextId, clock, view, snap, arrayLoadedMessages,
                   displayFavorites, pcLoad, cursorLoad, pcDel, idDel, pcDm,
                   pend, prevLoad, pcDx,
                   bound, pcLoad2, cursorLoad2, asked>>

\* getDoc has answered: the flag read is negated in the collection and the
\* clicked button's class is set; when a favorite is cleared while the
\* favorites view is shown, the list is cleared and reloaded and the
\* handler awaits noFavoriteMessages().
HighlightGetDoc ==
    /\ pcHl = "getDoc"
    /\ IF idHl \notin DOMAIN db
       THEN /\ UNCHANGED <<db, view, pend>>
            /\ pcHl' = "idle" /\ idHl' = 0 /\ aliveHl' = FALSE
            /\ last' = Step("highlightThrew", idHl)
       ELSE LET f == db[idHl].fav IN
            /\ db' = [db EXCEPT ![idHl].fav = ~f]
            /\ view' = IF aliveHl THEN SetStar(view, idHl, ~f) ELSE view
            /\ IF f /\ displayFavorites
               THEN /\ pend' = Issue(pend, {"clear", "loadFav"})
                    /\ pcHl' = "noFavorite"
                    /\ UNCHANGED <<idHl, aliveHl>>
               ELSE /\ UNCHANGED pend
                    /\ pcHl' = "idle" /\ idHl' = 0 /\ aliveHl' = FALSE
            /\ last' = IF f /\ displayFavorites
                        THEN Request("unfavorite", idHl, view)
                        ELSE Step(IF f THEN "unfavorite" ELSE "favorite", idHl)
    /\ UNCHANGED <<nextId, clock, snap, arrayLoadedMessages, displayFavorites,
                   pcLoad, cursorLoad, pcDel, idDel, pcDm, prevLoad, pcDx,
                   bound, pcLoad2, cursorLoad2, asked>>

\* noFavoriteMessages() has answered: with no favorite left,
\* displayAllMessages() is called.
HighlightNoFavorite ==
    /\ pcHl = "noFavorite"
    /\ IF Len(FavDocs(db)) = 0
       THEN /\ pend' = Issue(pend, {"loadAll"})
            /\ last' = [last EXCEPT !.op = "lastFavoriteCleared", !.id = idHl]
       ELSE /\ UNCHANGED pend
            /\ last' = [last EXCEPT !.op = "favoritesRemain", !.id = idHl]
    /\ pcHl' = "idle" /\ idHl' = 0 /\ aliveHl' = FALSE
    /\ UNCHANGED <<db, nextId, clock, view, snap, arrayLoadedMessages,
                   displayFavorites, pcLoad, cursorLoad, pcDel, idDel, pcDm, prevLoad, pcDx,
                   bound, pcLoad2, cursorLoad2, asked>>

\* -------------------------------------------------------- displayMessages
\* The click on the favorites button, then await noFavoriteMessages().
DisplayClick ==
    /\ pcDm = "idle"
    /\ InFlight < bound.inFlight
    /\ \E s \in isUserSignedIn :
          IF s THEN /\ pcDm' = "noFavorite"
                    /\ last' = Step("displayClick", 0)
               ELSE /\ pcDm' = pcDm
                    /\ last' = Step("mustSignIn", 0)
    /\ UNCHANGED <<db, nextId, clock, view, snap, arrayLoadedMessages,
                   displayFavorites, pcLoad, cursorLoad, pcDel, idDel, pcHl,
                   idHl, aliveHl, pend, prevLoad, pcDx,
                   bound, pcLoad2, cursorLoad2, asked>>

\* DisplayNoFavorite with deleteAllDocsFromGUI() called before the check
\* for favorites instead of after it.
DisplayNoFavoriteClearsFirst ==
    /\ pcDm = "noFavorite"
    /\ IF Len(FavDocs(db)) = 0
       THEN /\ pend' = Issue(pend, {"clear"})
            /\ UNCHANGED displayFavorites
            /\ last' = Step("alertNoFavorites", 0)
       ELSE IF ~displayFavorites
       THEN /\ pend' = Issue(pend, {"clear", "loadFav"})
            /\ displayFavorites' = TRUE
            /\ last' = Request("showFavorites", 0, view)
       ELSE /\ pend' = Issue(pend, {"clear", "loadAll"})
            /\ displayFavorites' = FALSE
            /\ last' = Request("showAll", 0, view)
    /\ pcDm' = "idle"
    /\ UNCHANGED <<db, nextId, clock, view, snap, arrayLoadedMessages,
                   pcLoad, cursorLoad, pcDel, idDel, pcHl, idHl, aliveHl,
                   prevLoad, pcDx,
                   bound, pcLoad2, cursorLoad2, asked>>

\* noFavoriteMessages() has answered: without favorites an alert; else
\* deleteAllDocsFromGUI(), then the favorites or all messages are
\* requested and the flag flips.
DisplayNoFavorite ==
    /\ pcDm = "noFavorite"
    /\ IF Len(FavDocs(db)) = 0
       THEN /\ UNCHANGED <<pend, displayFavorites>>
            /\ last' = Step("alertNoFavorites", 0)
       ELSE IF ~displayFavorites
       THEN /\ pend' = Issue(pend, {"clear", "loadFav"})
            /\ displayFavorites' = TRUE
            /\ last' = Request("showFavorites", 0, view)
       ELSE /\ pend' = Issue(pend, {"clear", "loadAll"})
            /\ displayFavorites' = FALSE
            /\ last' = Request("showAll", 0, view)
    /\ pcDm' = "idle"
    /\ UNCHANGED <<db, nextId, clock, view, snap, arrayLoadedMessages,
                   pcLoad, cursorLoad, pcDel, idDel, pcHl, idHl, aliveHl, prevLoad, pcDx,
                   bound, pcLoad2, cursorLoad2, asked>>

\* ----------------------------------------------------------- deleteAllDocs
\* DeleteAllClick reporting a missing sign-in and going on all the same.
DeleteAllClickUnguarded ==
    /\ InFlight < bound.inFlight
    /\ \E s \in isUserSignedIn :
          /\ pend' = Issue(pend, {"deleteAll"})
          /\ arrayLoadedMessages' = <<>>
          /\ prevLoad' = IF Len(arrayLoadedMessages) = 0
                            \/ prevLoad.cursor = NoDoc
                         THEN prevLoad
                         ELSE [prevLoad EXCEPT !.spliced = TRUE]
          /\ last' = Step(IF s THEN "deleteAllClick" ELSE "mustSignIn", 0)
    /\ UNCHANGED <<db, nextId, clock, view, snap, displayFavorites, pcLoad,
                   cursorLoad, pcDel, idDel, pcHl, idHl, aliveHl, pcDm, pcDx,
                   bound, pcLoad2, cursorLoad2, asked>>

\* The click on the delete-all button: the query is sent and the history is
\* emptied at once, before the query answers.
DeleteAllClick ==
    /\ InFlight < bound.inFlight
    /\ \E s \in isUserSignedIn :
          IF s THEN /\ pend' = Issue(pend, {"deleteAll"})
                    /\ arrayLoadedMessages' = <<>>
                    /\ prevLoad' = IF Len(arrayLoadedMessages) = 0
                                      \/ prevLoad.cursor = NoDoc
                                   THEN prevLoad
                                   ELSE [prevLoad EXCEPT !.spliced = TRUE]
                    /\ last' = Step("deleteAllClick", 0)
               ELSE /\ UNCHANGED <<pend, arrayLoadedMessages, prevLoad>>
                    /\ last' = Step("mustSignIn", 0)
    /\ UNCHANGED <<db, nextId, clock, view, snap, displayFavorites, pcLoad,
                   cursorLoad, pcDel, idDel, pcHl, idHl, aliveHl, pcDm, pcDx,
                   bound, pcLoad2, cursorLoad2, asked>>

\* ------------------------------------------------ deleteAllExceptFavorites
\* confirm(...): the user accepts or cancels.
confirm == BOOLEAN

\* The click, then await noMessages().
ExceptClick ==
    /\ pcDx = "idle"
    /\ InFlight < bound.inFlight
    /\ \E s \in isUserSignedIn :
          IF s THEN /\ pcDx' = "noMessages"
                    /\ last' = Step("exceptClick", 0)
               ELSE /\ pcDx' = pcDx
                    /\ last' = Step("mustSignIn", 0)
    /\ UNCHANGED <<db, nextId, clock, view, snap, arrayLoadedMessages,
                   displayFavorites, pcLoad, cursorLoad, pcDel, idDel, pcHl,
                   idHl, aliveHl, pcDm, pend, prevLoad,
                   bound, pcLoad2, cursorLoad2, asked>>

\* noMessages() has answered: without messages an alert; else noMessages()
\* is awaited a second time.
ExceptNoMessages ==
    /\ pcDx = "noMessages"
    /\ IF DOMAIN db = {}
       THEN /\ pcDx' = "idle"
            /\ last' = Step("alertNothingToDelete", 0)
       ELSE /\ pcDx' = "noMessagesAgain"
            /\ last' = Step("exceptNoMessages", 0)
    /\ UNCHANGED <<db, nextId, clock, view, snap, arrayLoadedMessages,
                   displayFavorites, pcLoad, cursorLoad, pcDel, idDel, pcHl,
                   idHl, aliveHl, pcDm, pend, prevLoad,
                   bound, pcLoad2, cursorLoad2, asked>>

\* The second noMessages() has answered: with messages
\* noFavoriteMessages() is awaited; without, && cuts short and the listing
\* is requested.
ExceptNoMessagesAgain ==
    /\ pcDx = "noMessagesAgain"
    /\ IF DOMAIN db = {}
       THEN /\ pcDx' = "idle"
            /\ pend' = Issue(pend, {"deleteExcept"})
            /\ asked' = "unasked"
            /\ last' = Step("exceptRequested", 0)
       ELSE /\ pcDx' = "noFavorite"
            /\ UNCHANGED <<pend, asked>>
            /\ last' = Step("exceptNoMessagesAgain", 0)
    /\ UNCHANGED <<db, nextId, clock, view, snap, arrayLoadedMessages,
                   displayFavorites, pcLoad, cursorLoad, pcDel, idDel, pcHl,
                   idHl, aliveHl, pcDm, prevLoad,
                   bound, pcLoad2, cursorLoad2>>

\* ExceptNoFavorite going on whatever confirm() returns.
ExceptNoFavoriteIgnoresCancel ==
    /\ pcDx = "noFavorite"
    /\ \E ok \in confirm :
          /\ pend' = Issue(pend, {"deleteExcept"})
          /\ asked' = IF Len(FavDocs(db)) = 0 /\ ok THEN "confirmed"
                      ELSE "unasked"
          /\ last' = Step(IF Len(FavDocs(db)) = 0 /\ ~ok
                          THEN "confirmRefused" ELSE "exceptRequested", 0)
    /\ pcDx' = "idle"
    /\ UNCHANGED <<db, nextId, clock, view, snap, arrayLoadedMessages,
                   displayFavorites, pcLoad, cursorLoad, pcDel, idDel, pcHl,
                   idHl, aliveHl, pcDm, prevLoad,
                   bound, pcLoad2, cursorLoad2>>

\* noFavoriteMessages() has answered: without favorites the user is asked
\* to confirm, and a cancel returns; else the listing is requested.
ExceptNoFavorite ==
    /\ pcDx = "noFavorite"
    /\ \E ok \in confirm :
          IF Len(FavDocs(db)) = 0 /\ ~ok
          THEN /\ UNCHANGED <<pend, asked>>
               /\ last' = Step("confirmRefused", 0)
          ELSE /\ pend' = Issue(pend, {"deleteExcept"})
               /\ asked' = IF Len(FavDocs(db)) = 0 THEN "confirmed"
                           ELSE "unasked"
               /\ last' = Step("exceptRequested", 0)
    /\ pcDx' = "idle"
    /\ UNCHANGED <<db, nextId, clock, view, snap, arrayLoadedMessages,
                   displayFavorites, pcLoad, cursorLoad, pcDel, idDel, pcHl,
                   idHl, aliveHl, pcDm, prevLoad,
                   bound, pcLoad2, cursorLoad2>>

\* ------------------------------------------- getDocs(...).then callbacks
\* deleteAllDocsFromGUI: every document of the collection leaves the list.
deleteAllDocsFromGUI ==
    /\ pend["clear"] > 0
    /\ pend' = Done(pend, "clear")
    /\ SetView(DeleteEach(view, AllDocs(db)))
    /\ last' = [last EXCEPT !.op = "cleared"]
    /\ UNCHANGED <<db, nextId, clock, snap, arrayLoadedMessages,
                   displayFavorites, pcLoad, cursorLoad, pcDel, idDel, pcHl,
                   idHl, pcDm, prevLoad, pcDx,
                   bound, pcLoad2, cursorLoad2, asked>>

\* displayFavoritesMessages: every favorite document is displayed.
displayFavoritesMessages ==
    /\ pend["loadFav"] > 0
    /\ pend' = Done(pend, "loadFav")
    /\ SetView(DisplayEach(view, FavDocs(db), Now(clock)))
    /\ last' = [last EXCEPT !.op = "favoritesLoaded"]
    /\ UNCHANGED <<db, nextId, clock, snap, arrayLoadedMessages,
                   displayFavorites, pcLoad, cursorLoad, pcDel, idDel, pcHl,
                   idHl, pcDm, prevLoad, pcDx,
                   bound, pcLoad2, cursorLoad2, asked>>

\* displayAllMessages: every document is displayed.
displayAllMessages ==
    /\ pend["loadAll"] > 0
    /\ pend' = Done(pend, "loadAll")
    /\ SetView(DisplayEach(view, AllDocs(db), Now(clock)))
    /\ last' = [last EXCEPT !.op = "allLoaded"]
    /\ UNCHANGED <<db, nextId, clock, snap, arrayLoadedMessages,
                   displayFavorites, pcLoad, cursorLoad, pcDel, idDel, pcHl,
                   idHl, pcDm, prevLoad, pcDx,
                   bound, pcLoad2, cursorLoad2, asked>>

\* query(collection('messages')): the documents by name.
RECURSIVE ById(_)
ById(S) ==
    IF S = {} THEN <<>>
    ELSE LET m == CHOOSE x \in S : \A y \in S : x.id <= y.id
         IN  <<m>> \o ById(S \ {m})

RECURSIVE DeleteDocs(_, _, _)
\* deleteAllDocs' forEach: deleteMessage, deleteImage, deleteDoc for each
\* document; an exception thrown by deleteImage ends the forEach.
DeleteDocs(v, d, docs) ==
    IF Len(docs) = 0 THEN [view |-> v, db |-> d, threw |-> FALSE]
    ELSE LET s == Head(docs) IN
         IF deleteImage(s.img) = "threw"
         THEN [view |-> deleteMessage(v, s.id), db |-> d, threw |-> TRUE]
         ELSE DeleteDocs(deleteMessage(v, s.id), Without(d, s.id), Tail(docs))

RECURSIVE DeleteNonFavorites(_, _, _)
\* deleteAllExceptFavorites' forEach: a document whose favorite flag is not
\* true gets deleteMessage, deleteImage, deleteDoc; an exception thrown by
\* deleteImage ends the forEach.
DeleteNonFavorites(v, d, docs) ==
    IF Len(docs) = 0 THEN [view |-> v, db |-> d, threw |-> FALSE]
    ELSE LET s == Head(docs) IN
         IF s.fav THEN DeleteNonFavorites(v, d, Tail(docs))
         ELSE IF deleteImage(s.img) = "threw"
         THEN [view |-> deleteMessage(v, s.id), db |-> d, threw |-> TRUE]
         ELSE DeleteNonFavorites(deleteMessage(v, s.id), Without(d, s.id),
                                 Tail(docs))

\* deleteAllDocs: the listing has arrived.
deleteAllDocs ==
    /\ pend["deleteAll"] > 0
    /\ pend' = Done(pend, "deleteAll")
    /\ LET r == DeleteDocs(view, db, ById({DocSnap(db, i) : i \in DOMAIN db})) IN
       /\ SetView(r.view)
       /\ db' = r.db
       /\ last' = Step(IF r.threw THEN "deleteAllThrew" ELSE "deletedAll", 0)
    /\ UNCHANGED <<nextId, clock, snap, arrayLoadedMessages, displayFavorites,
                   pcLoad, cursorLoad, pcDel, idDel, pcHl, idHl, pcDm, pcDx,
                   prevLoad,
                   bound, pcLoad2, cursorLoad2, asked>>

\* deleteAllExceptFavorites: the listing has arrived.
deleteAllExceptFavorites ==
    /\ pend["deleteExcept"] > 0
    /\ pend' = Done(pend, "deleteExcept")
    /\ asked' = "none"
    /\ LET r == DeleteNonFavorites(view, db, AllDocs(db)) IN
       /\ SetView(r.view)
       /\ db' = r.db
       /\ last' = Step(IF r.threw THEN "exceptThrew" ELSE "deletedExcept", 0)
    /\ UNCHANGED <<nextId, clock, snap, arrayLoadedMessages, displayFavorites,
                   pcLoad, cursorLoad, pcDel, idDel, pcHl, idHl, pcDm, pcDx,
                   prevLoad,
                   bound, pcLoad2, cursorLoad2>>

\* ---------------------------------------------------------- specification
Environment ==
    \/ RemoteAdd
    \/ \E id \in Ids : RemoteDelete(id)
    \/ saveMessage(0)
    \/ \E id \in Ids : ServerAck(id)

LoadOlder ==
    \/ LoadClick
    \/ LoadNoMessages
    \/ LoadGetFirstMessage
    \/ LoadGetPage

LoadOlder2 ==
    \/ Load2Click
    \/ Load2NoMessages
    \/ Load2GetFirstMessage
    \/ Load2GetPage

DeleteOne ==
    \/ \E id \in Ids : DeleteClick(id)
    \/ DeleteGetDoc

Highlight ==
    \/ \E id \in Ids : HighlightClick(id)
    \/ HighlightGetDoc
    \/ HighlightNoFavorite

Display ==
    \/ DisplayClick
    \/ DisplayNoFavorite

Callbacks ==
    \/ deleteAllDocsFromGUI
    \/ displayFavoritesMessages
    \/ displayAllMessages

\* saveImageMessage: the placeholder document, then the uploaded file's URL.
Images ==
    \/ saveMessage(LoadingImage)
    \/ \E id \in Ids : ImageUploaded(id)

DeleteAll ==
    \/ DeleteAllClick
    \/ deleteAllDocs

DeleteExcept ==
    \/ ExceptClick
    \/ ExceptNoMessages
    \/ ExceptNoMessagesAgain
    \/ ExceptNoFavorite
    \/ deleteAllExceptFavorites

Next ==
    \/ Environment
    \/ Snapshot
    \/ LoadOlder
    \/ DeleteOne
    \/ Highlight
    \/ Display
    \/ Callbacks
    \/ Images
    \/ DeleteAll
    \/ DeleteExcept
    \/ \E id \in Ids : RemoteHighlight(id)
    \/ LoadOlder2

Spec == Init /\ [][Next]_vars

\* The feed: live changes, older pages, and the favorites button.
NextFeed ==
    \/ Environment
    \/ Snapshot
    \/ LoadOlder
    \/ Display
    \/ Callbacks

SpecFeed == Init /\ [][NextFeed]_vars

\* The favorites view: the star buttons and the favorites button, while
\* other clients add messages.
NextFav ==
    \/ RemoteAdd
    \/ Snapshot
    \/ Highlight
    \/ Display
    \/ Callbacks

SpecFav == Init /\ [][NextFav]_vars

\* Paging: a session opened on a collection that holds a live window, a
\* full page and more; the user loads pages and deletes messages.
InitPage ==
    /\ \E n \in {MaxDocs, MaxId} :
          /\ db = [i \in 1..n |-> [ts |-> i, pend |-> FALSE, fav |-> FALSE,
                                   img |-> 0]]
          /\ nextId = n + 1
          /\ clock = n
    /\ view = <<>>
    /\ snap = EmptyFn
    /\ arrayLoadedMessages = <<>>
    /\ displayFavorites = FALSE
    /\ pcLoad = "idle" /\ cursorLoad = NoDoc
    /\ pcDel = "idle" /\ idDel = 0
    /\ pcHl = "idle" /\ idHl = 0 /\ aliveHl = FALSE
    /\ pcDm = "idle"
    /\ pcDx = "idle"
    /\ pend = [k \in Kinds |-> 0]
    /\ prevLoad = [cursor |-> NoDoc, spliced |-> FALSE]
    /\ pcLoad2 = "idle" /\ cursorLoad2 = NoDoc
    /\ asked = "none"
    /\ bound = [docs |-> MaxDocs, inFlight |-> MaxInFlight]
    /\ last = Step("init", 0)

NextPage ==
    \/ Snapshot
    \/ LoadOlder
    \/ DeleteOne

SpecPage == InitPage /\ [][NextPage]_vars

\* The favorites button with single-message deletion: no star is toggled.
NextSwitch ==
    \/ Snapshot
    \/ DeleteOne
    \/ Display
    \/ Callbacks

SpecSwitch == Init /\ [][NextSwitch]_vars

\* The star buttons in the view of all messages, under live changes.
NextStar ==
    \/ RemoteAdd
    \/ \E id \in Ids : RemoteDelete(id)
    \/ Snapshot
    \/ \E id \in Ids : HighlightClick(id)
    \/ HighlightGetDoc

SpecStar == Init /\ [][NextStar]_vars

\* Every button of the page, the collection changed by this client only.
NextButtons ==
    \/ Snapshot
    \/ LoadOlder
    \/ DeleteOne
    \/ Highlight
    \/ Display
    \/ Callbacks
    \/ DeleteAll
    \/ DeleteExcept

SpecButtons == Init /\ [][NextButtons]_vars

\* The page opens on a collection with text messages, image messages whose
\* upload never finished (the placeholder URL) and uploaded images.
InitImages ==
    /\ \E n \in 0..(MaxInitDocs + 1) : \E favs \in SUBSET (1..n) :
       \E imgs \in [1..n -> {NoImage, LoadingImage, StoredImage}] :
          /\ db = [i \in 1..n |-> [ts |-> i, pend |-> FALSE,
                                   fav |-> (i \in favs), img |-> imgs[i]]]
          /\ nextId = n + 1
          /\ clock = n
    /\ view = <<>>
    /\ snap = EmptyFn
    /\ arrayLoadedMessages = <<>>
    /\ displayFavorites = FALSE
    /\ pcLoad = "idle" /\ cursorLoad = NoDoc
    /\ pcDel = "idle" /\ idDel = 0
    /\ pcHl = "idle" /\ idHl = 0 /\ aliveHl = FALSE
    /\ pcDm = "idle"
    /\ pcDx = "idle"
    /\ pend = [k \in Kinds |-> 0]
    /\ prevLoad = [cursor |-> NoDoc, spliced |-> FALSE]
    /\ pcLoad2 = "idle" /\ cursorLoad2 = NoDoc
    /\ asked = "none"
    /\ bound = [docs |-> MaxDocs, inFlight |-> MaxInFlight]
    /\ last = Step("init", 0)

\* Deletions, by this client and by others, of messages with images.
NextDelete ==
    \/ \E id \in Ids : RemoteDelete(id)
    \/ \E id \in Ids : ImageUploaded(id)
    \/ Snapshot
    \/ DeleteOne
    \/ DeleteAll
    \/ DeleteExcept

SpecDelete == InitImages /\ [][NextDelete]_vars

\* The stars of the live window while other clients add messages and
\* toggle favorites.
NextMarks ==
    \/ RemoteAdd
    \/ \E id \in Ids : RemoteHighlight(id)
    \/ Snapshot

SpecMarks == Init /\ [][NextMarks]_vars

\* The timeline: the page opens on a collection one message larger than
\* the live window; the user loads older messages and deletes single ones
\* while other clients add and delete messages.
InitTimeline ==
    /\ db = [i \in 1..MaxDocs |-> [ts |-> i, pend |-> FALSE, fav |-> FALSE,
                                    img |-> 0]]
    /\ nextId = MaxDocs + 1
    /\ clock = MaxDocs
    /\ view = <<>>
    /\ snap = EmptyFn
    /\ arrayLoadedMessages = <<>>
    /\ displayFavorites = FALSE
    /\ pcLoad = "idle" /\ cursorLoad = NoDoc
    /\ pcDel = "idle" /\ idDel = 0
    /\ pcHl = "idle" /\ idHl = 0 /\ aliveHl = FALSE
    /\ pcDm = "idle"
    /\ pcDx = "idle"
    /\ pend = [k \in Kinds |-> 0]
    /\ prevLoad = [cursor |-> NoDoc, spliced |-> FALSE]
    /\ pcLoad2 = "idle" /\ cursorLoad2 = NoDoc
    /\ asked = "none"
    /\ bound = [docs |-> MaxDocs + 1, inFlight |-> MaxInFlight]
    /\ last = Step("init", 0)

NextTimeline ==
    \/ RemoteAdd
    \/ \E id \in Ids : RemoteDelete(id)
    \/ Snapshot
    \/ LoadOlder
    \/ DeleteOne

SpecTimeline == InitTimeline /\ [][NextTimeline]_vars

\* Races: the user clicks again while earlier clicks are still being
\* handled (two operations in flight), on the buttons that load older
\* messages and delete all messages, while other clients add messages.
InitRace ==
    /\ db = [i \in 1..MaxDocs |-> [ts |-> i, pend |-> FALSE, fav |-> FALSE,
                                    img |-> 0]]
    /\ nextId = MaxDocs + 1
    /\ clock = MaxDocs
    /\ view = <<>>
    /\ snap = EmptyFn
    /\ arrayLoadedMessages = <<>>
    /\ displayFavorites = FALSE
    /\ pcLoad = "idle" /\ cursorLoad = NoDoc
    /\ pcDel = "idle" /\ idDel = 0
    /\ pcHl = "idle" /\ idHl = 0 /\ aliveHl = FALSE
    /\ pcDm = "idle"
    /\ pcDx = "idle"
    /\ pend = [k \in Kinds |-> 0]
    /\ prevLoad = [cursor |-> NoDoc, spliced |-> FALSE]
    /\ pcLoad2 = "idle" /\ cursorLoad2 = NoDoc
    /\ asked = "none"
    /\ bound = [docs |-> MaxDocs + 1, inFlight |-> MaxInFlight + 1]
    /\ last = Step("init", 0)

NextRace ==
    \/ RemoteAdd
    \/ Snapshot
    \/ LoadOlder
    \/ LoadOlder2
    \/ DeleteAll

SpecRace == InitRace /\ [][NextRace]_vars

\* ================================================================ claims
IdSeq(v) == [i \in 1..Len(v) |-> v[i].id]

Ascending(v) == \A i \in 1..(Len(v) - 1) : v[i].ts <= v[i + 1].ts

Markers == 0..(ToMillis(MaxId) + 1)

\* C1: whatever live changes, older pages and favorites/all reloads have
\* been applied, no two rendered messages have the same identifier.
C1_NoDuplicateIds ==
    \A i, j \in 1..Len(view) : i # j => view[i].id # view[j].id

\* C1 witness: an older page has been displayed above a full live window.
C1_Witness ==
    /\ last.op = "loadPage"
    /\ Len(view) > WindowSize
    /\ Len(arrayLoadedMessages) > 0

\* C2: the rendered list is in ascending order of its timestamp markers in
\* every state; and adding m1 (ts 100), then m2 (ts 50), to an empty list
\* gives [m2, m1], and removing m1 then gives [m2].
C2_Ascending ==
    /\ Ascending(view)
    /\ LET m1 == [id |-> 1, ts |-> 100 * TicksPerMilli, pend |-> FALSE,
                  fav |-> FALSE, img |-> 0]
           m2 == [id |-> 2, ts |-> 50 * TicksPerMilli, pend |-> FALSE,
                  fav |-> FALSE, img |-> 0]
           v1 == displayMessage(<<>>, m1, 0)
           v2 == displayMessage(v1, m2, 0)
       IN  /\ IdSeq(v1) = <<1>>
           /\ IdSeq(v2) = <<2, 1>>
           /\ IdSeq(deleteMessage(v2, 1)) = <<2>>

\* C2 witness: a message loaded from an older page stands first, before a
\* newer one, and a listener event has since removed a message.
C2_Witness ==
    /\ last.op = "snapshot"
    /\ "removed" \in last.kinds
    /\ Len(view) >= 2
    /\ view[1].id \in SeqIds(arrayLoadedMessages)
    /\ view[1].ts < view[2].ts

\* C3: for every timestamp t, the place computed in the rendered list is
\* right after the last message whose marker is <= t and before the first
\* whose marker is > t; a t greater than every marker is appended, and a t
\* equal to markers of the list goes after them.
C3_InsertionIndex ==
    \A t \in Markers :
        LET k == InsertionIndex(view, t) IN
        /\ k \in 1..(Len(view) + 1)
        /\ \A i \in 1..Len(view) :
              /\ i < k => view[i].ts <= t
              /\ i >= k => view[i].ts > t
        /\ (\A i \in 1..Len(view) : view[i].ts < t) => k = Len(view) + 1
        /\ \A i \in 1..Len(view) : view[i].ts = t => k > i

\* C3 witness: the listener has added messages and two rendered neighbours
\* have the same marker.
C3_Witness ==
    /\ last.op = "snapshot"
    /\ "added" \in last.kinds
    /\ \E i \in 1..(Len(view) - 1) : view[i].ts = view[i + 1].ts

FavIds(d) == {i \in DOMAIN d : d[i].fav}

Quiescent == pcHl = "idle" /\ \A k \in Kinds : pend[k] = 0

\* C6 as claimed: in the favorites view, when the star of a rendered
\* favorite is cleared and the handler and its queries have completed, the
\* rendered set is the previous one minus that message (here: the view
\* showed exactly the favorites, favorites remain, and nothing else ran).
C6_UnfavoriteRemovesExactlyThat ==
    (/\ last.origin = "unfavorite"
     /\ Quiescent
     /\ FavIds(db) # {}
     /\ last.before \ {last.id} = FavIds(db))
        => SeqIds(view) = last.before \ {last.id}

\* C7 as claimed: when the handler finds that the favorite it cleared was
\* the last one, the favorites-view flag is false afterwards.
C7_LastFavoriteClearedMeansAll ==
    last.op = "lastFavoriteCleared" => ~displayFavorites

\* C8: when displayMessages, in state ALL, learns that no favorite exists,
\* it alerts and changes neither the flag nor the rendered list, and
\* requests nothing.
C8_RefusedWithoutFavorites ==
    [][(/\ pcDm = "noFavorite"
        /\ pcDm' = "idle"
        /\ ~displayFavorites
        /\ FavIds(db) = {})
         => /\ last'.op = "alertNoFavorites"
            /\ ~displayFavorites'
            /\ view' = view
            /\ pend' = pend
            /\ db' = db]_vars

\* C8 witness: the alert has been raised in state ALL with messages
\* rendered.
C8_Witness ==
    /\ last.op = "alertNoFavorites"
    /\ ~displayFavorites
    /\ Len(view) > 0

\* C9 as claimed: after a switch from ALL to the favorites view, once the
\* clear and the load have both completed (nothing else having run), the
\* rendered set is the set of favorites.
C9_FavoritesRenderedAfterSwitch ==
    (/\ last.origin = "showFavorites"
     /\ pend["clear"] = 0
     /\ pend["loadFav"] = 0)
        => SeqIds(view) = FavIds(db)

\* C10 as claimed: whenever displayMessages finishes handling a press of the
\* favorites button made in the favorites view, the state is ALL afterwards,
\* whether or not a favorite exists.
C10_ToggleFromFavoritesGoesToAll ==
    [][(/\ pcDm = "noFavorite"
        /\ pcDm' = "idle"
        /\ displayFavorites)
         => ~displayFavorites']_vars

\* C11 as claimed: after a switch from the favorites view back to ALL, once
\* the clear and the load have both completed (nothing else having run),
\* the rendered messages are among the WindowSize most recent ones of the
\* live query, not a larger set.
C11_RecentWindowAfterSwitchBack ==
    (/\ last.origin = "showAll"
     /\ pend["clear"] = 0
     /\ pend["loadAll"] = 0)
        => SeqIds(view) \subseteq SeqIds(RecentDocs(db))

\* C12 as claimed: when deleteAllDocsFromGUI has completed, no message is
\* rendered any more, whether or not it still exists in the collection.
C12_NothingRenderedAfterClear ==
    last.op = "cleared" => Len(view) = 0

\* C13 as claimed: when highlightMessage has read the document of the
\* clicked message, the favorite flag in the collection becomes the negation
\* of the value read and the star of that message in the list shows the new
\* value; in the view of all messages no message enters or leaves the list
\* and the history and the favorites flag stay as they were.
C13_ToggleSetsFlagAndStar ==
    [][(/\ pcHl = "getDoc"
        /\ pcHl' # "getDoc"
        /\ idHl \in DOMAIN db)
         => /\ db'[idHl].fav = ~db[idHl].fav
            /\ \A i \in 1..Len(view') :
                  view'[i].id = idHl => view'[i].star = db'[idHl].fav
            /\ ~displayFavorites =>
                  /\ IdSeq(view') = IdSeq(view)
                  /\ arrayLoadedMessages' = arrayLoadedMessages
                  /\ displayFavorites' = displayFavorites]_vars

\* C14: a click made while no user is signed in only reports that one must
\* sign in: no query or write is issued, no handler starts, and the
\* collection, the rendered list, the history and the favorites flag stay
\* as they were.
C14_SignedOutClickChangesNothing ==
    [][last'.op = "mustSignIn"
         => UNCHANGED <<db, view, arrayLoadedMessages, displayFavorites, pend,
                        pcLoad, pcDel, pcHl, pcDm, pcDx>>]_vars

\* C14 witness: the report was made in the favorites view with messages
\* rendered.
C14_Witness ==
    /\ last.op = "mustSignIn"
    /\ displayFavorites
    /\ Len(view) > 0

\* C15: when deleteAllExceptFavorites, with messages in the collection,
\* learns that none is a favorite, the user is asked to confirm; when the
\* user cancels, no listing is requested, no document is deleted and no
\* message leaves the list.
C15_CancelDeletesNothing ==
    [][(/\ pcDx = "noFavorite"
        /\ pcDx' = "idle"
        /\ Len(FavDocs(db)) = 0)
         => /\ last'.op \in {"confirmRefused", "exceptRequested"}
            /\ last'.op = "confirmRefused" =>
                  UNCHANGED <<db, view, pend, arrayLoadedMessages>>]_vars

\* C15 witness: the user has cancelled while messages without a favorite
\* were rendered.
C15_Witness ==
    /\ last.op = "confirmRefused"
    /\ Len(view) > 0
    /\ DOMAIN db # {}
    /\ Len(FavDocs(db)) = 0

\* C16 as claimed: when the listing of deleteAllExceptFavorites is handled,
\* no message that is a favorite in it is deleted from the collection or
\* leaves the list, and every message that is not a favorite in it is
\* deleted from the collection.
C16_DeletesExactlyNonFavorites ==
    [][pend'["deleteExcept"] < pend["deleteExcept"]
         => \A i \in DOMAIN db :
               /\ db[i].fav =>
                     /\ i \in DOMAIN db'
                     /\ Rendered(view, i) => Rendered(view', i)
               /\ ~db[i].fav => i \notin DOMAIN db']_vars

\* C17 as claimed: whatever its image (none, an uploaded file, a URL whose
\* deletion fails), a message that deleteOneMessage finds in the collection
\* is deleted from it, and so is every message that
\* deleteAllExceptFavorites finds not to be a favorite.
C17_DeletedWhateverTheImage ==
    [][/\ (pcDel = "getDoc" /\ pcDel' = "idle" /\ idDel \in DOMAIN db)
            => idDel \notin DOMAIN db'
       /\ pend'["deleteExcept"] < pend["deleteExcept"]
            => \A i \in DOMAIN db :
                  ~db[i].fav => i \notin DOMAIN db']_vars

\* Nothing is in flight and the listener has delivered the current result.
Settled ==
    /\ Handlers = 0
    /\ \A k \in Kinds : pend[k] = 0
    /\ Synced

\* C18 as claimed: once the page fetch, the deletions and the listener
\* events have all completed, every rendered message exists in the
\* collection.
C18_SettledViewHasNoDeletedMessage ==
    Settled => SeqIds(view) \subseteq DOMAIN db

\* C19: the page a load receives holds at most PageSize messages, all
\* older than the cursor, newest first; each is rendered, and they are
\* appended in that order to the history, whose last element then is its
\* oldest message; and a load that finds a history takes its last element
\* as cursor.
C19_PageAppendedToHistory ==
    [][/\ (pcLoad = "getPage" /\ pcLoad' = "idle") =>
             LET old == arrayLoadedMessages
                 new == arrayLoadedMessages'
                 page == SubSeq(new, Len(old) + 1, Len(new))
             IN  /\ Len(new) >= Len(old)
                 /\ SubSeq(new, 1, Len(old)) = old
                 /\ Len(page) <= PageSize
                 /\ \A i \in 1..Len(page) :
                       /\ Newer(cursorLoad, page[i])
                       /\ Rendered(view', page[i].id)
                       /\ \A j \in (i + 1)..Len(page) : Newer(page[i], page[j])
                 /\ Len(page) > 0 =>
                       \A k \in 1..(Len(new) - 1) : Newer(new[k], new[Len(new)])
       /\ (pcLoad = "noMessages" /\ pcLoad' = "getPage"
              /\ Len(arrayLoadedMessages) > 0) =>
             cursorLoad' = arrayLoadedMessages[Len(arrayLoadedMessages)]]_vars

\* C19 witness: a second page has been appended after a full first one.
C19_Witness ==
    /\ last.op = "loadPage"
    /\ Len(arrayLoadedMessages) > PageSize
    /\ \A i \in 1..Len(arrayLoadedMessages) :
          Rendered(view, arrayLoadedMessages[i].id)

\* C20 as claimed: once the listener has delivered the collection's current
\* state (so every modified change carrying a server timestamp has been
\* displayed), the rendered messages stand in ascending order of the
\* timestamps, in milliseconds, that their documents have.
C20_AscendingByDocumentTimestamps ==
    Synced =>
        \A i, j \in 1..Len(view) :
            (/\ i < j
             /\ view[i].id \in DOMAIN db /\ ~db[view[i].id].pend
             /\ view[j].id \in DOMAIN db /\ ~db[view[j].id].pend)
                => ToMillis(db[view[i].id].ts) <= ToMillis(db[view[j].id].ts)

\* C21 as claimed: when the listener delivers a modified change in which
\* the favorite flag of a rendered message has changed, the message's star
\* afterwards shows the new value, whether the flag went from false to true
\* or from true to false.
C21_StarFollowsModifiedFlag ==
    [][snap' # snap =>
          \A i \in (DOMAIN snap) \cap (DOMAIN snap') :
             (snap[i].fav # snap'[i].fav /\ Rendered(view, i))
                => /\ Rendered(view', i)
                   /\ Entry(view', i).star = snap'[i].fav]_vars

\* C22 as claimed: whenever deleteOneMessage removes a message from the
\* rendered list, the message is not in the history of loaded pages
\* afterwards, whether or not its document still exists in the collection.
C22_UnrenderedIsOutOfHistory ==
    [][(/\ pcDel = "getDoc" /\ pcDel' = "idle"
        /\ Rendered(view, idDel) /\ ~Rendered(view', idDel))
          => idDel \notin SeqIds(arrayLoadedMessages')]_vars

\* C23 as claimed: the cursor a load of older messages chooses is a message
\* that exists in the collection (the oldest of the live window, or a
\* loaded message), never one that deleteAllDocs has deleted, also when
\* another load was in flight when deleteAllDocs emptied the history. (No
\* other operation of SpecRace deletes a document.)
C23_CursorNotDeletedByDeleteAll ==
    [][/\ (pcLoad # "getPage" /\ pcLoad' = "getPage")
             => cursorLoad'.id \in DOMAIN db
       /\ (pcLoad2 # "getPage" /\ pcLoad2' = "getPage")
             => cursorLoad2'.id \in DOMAIN db]_vars

\* C24 as claimed: no identifier occurs twice in the history of loaded
\* pages, also when two loads of older messages overlap.
C24_HistoryHasNoDuplicate ==
    \A i, j \in 1..Len(arrayLoadedMessages) :
        arrayLoadedMessages[i].id = arrayLoadedMessages[j].id => i = j

\* C25 as claimed: when a load of older messages goes on after its query
\* for the oldest message of the live window, it has a cursor: the last
\* message of the history or the message the query returned, even if
\* messages were deleted after its check that there are messages.
C25_CursorIsDefined ==
    [][(pcLoad = "getFirstMessage" /\ pcLoad' # "getFirstMessage")
          => \/ Len(arrayLoadedMessages) > 0
             \/ getFirstMessage(db) # NoDoc]_vars

\* C26 as claimed: when the listing of deleteAllExceptFavorites leaves the
\* collection empty by its deletions, the user had confirmed the prompt,
\* even when the last favorite was unfavorited or deleted after the check
\* for favorites.
C26_EmptiedOnlyAfterConfirm ==
    [][(/\ pend'["deleteExcept"] < pend["deleteExcept"]
        /\ DOMAIN db # {}
        /\ DOMAIN db' = {})
          => asked = "confirmed"]_vars

\* C27 as claimed: while the favorites view is shown and nothing is in
\* flight, every rendered message is a favorite; the listener's changes
\* put no message that is not a favorite into the favorites view.
C27_FavoritesViewHoldsFavorites ==
    (displayFavorites /\ Settled) =>
        \A i \in 1..Len(view) :
            view[i].id \in DOMAIN db => db[view[i].id].fav

\* C28 as claimed: while all messages are shown and nothing is in flight,
\* the rendered messages are a contiguous run of the collection's
\* timeline: no message of the collection that lies between two rendered
\* messages is missing from the list, also after older pages were loaded
\* and new messages have pushed messages out of the live window.
C28_RenderedRunIsContiguous ==
    (~displayFavorites /\ Settled) =>
        \A a, b \in SeqIds(view) \cap DOMAIN db : \A m \in DOMAIN db :
            (/\ Newer(DocSnap(db, m), DocSnap(db, a))
             /\ Newer(DocSnap(db, b), DocSnap(db, m)))
                => Rendered(view, m)

====
